---- MODULE Spec2Model ----
(***************************************************************************)
(* State-machine model of the ClaudeAuto monitoring engine                 *)
(* (claude-autonomous-dev): the TTL cache, the cached environment scan,    *)
(* the log watchers and the periodic snapshot-and-diff monitor loop.       *)
(* Times are in milliseconds, as in the source.                            *)
(***************************************************************************)
EXTENDS Integers, Sequences, FiniteSets, TLC

VARIABLES
    now,             \* Date.now()
    cache,           \* this.cache: a Map, kept as the sequence of its entries in insertion order
    monitoring,      \* this.monitoring
    logWatchers,     \* this.logWatchers: log name -> index of the tail handle in tails, 0 = no entry
    tails,           \* the tail processes that have not exited: [log, st, cur]
    timers,          \* the armed interval timers: [interval, next, cur]
    processMonitor,  \* this.processMonitor: index into timers, 0 = null
    lastKnownState,  \* this.lastKnownState: a snapshot, or NULL
    env,             \* what the probes observe at this instant
    starts,          \* the startMonitoring calls that have not returned, each with its position
    ticks,           \* timer callbacks suspended in `await this.scan()` on a probe run: when each fired
    userProbes,      \* on-demand scan() calls suspended on a probe run
    probing,         \* the probe run of a scan() followed probe by probe: what each probe returned
    calls,           \* startMonitoring calls accepted so far
    nextId,          \* identity of the next snapshot object to be assembled
    act,             \* the operation the last step performed and what it returned
    out,             \* the events the last step emitted, in emission order
    written,         \* per key, the last setCache call made by the client (history)
    ops              \* number of client cache calls made so far

vars == <<now, cache, monitoring, logWatchers, tails, timers, processMonitor,
          lastKnownState, env, starts, ticks, userProbes, probing, nextId, calls,
          act, out, written, ops>>

monitorVars == <<monitoring, logWatchers, tails, timers, processMonitor,
                 lastKnownState, env, starts, ticks, userProbes, probing, nextId, calls>>

----------------------------------------------------------------------------
(* Bounds of the model *)

MaxTime == 5000
TimeStep == 2500
CacheMaxTime == 7500
MaxCacheOps == 3
MaxStarts == 2
MaxSnaps == 2
MaxPid == 2
MaxChunkLines == 2
MaxLineWords == 2
MaxLint == 11
MaxScans == 3
ScanStep == 20000
ScanMaxTime == 60000
MaxCmdWords == 3
LoopSnaps == 3
LoopInterval == 2500

(* Program constants *)

cacheTimeout == 5000
CacheMaxSize == 10
DefaultInterval == 5000

NULL == [id |-> 0]

Obj(i) == [id |-> i]

----------------------------------------------------------------------------
(* The cache: a JavaScript Map from key to {data, timestamp, timeout}.      *)
(* A Map iterates in insertion order; set() of a key already present keeps  *)
(* the key's position and replaces its value.                               *)

CacheKeys(c) == {c[i].key : i \in 1..Len(c)}

MapIndex(c, key) ==
    IF \E i \in 1..Len(c) : c[i].key = key
    THEN CHOOSE i \in 1..Len(c) : c[i].key = key
    ELSE 0

MapSet(c, e) ==
    IF MapIndex(c, e.key) = 0
    THEN Append(c, e)
    ELSE [c EXCEPT ![MapIndex(c, e.key)] = e]

MapDelete(c, key) == SelectSeq(c, LAMBDA e : e.key # key)

\* entry.timeout || this.cacheTimeout
EntryTimeout(e) == IF e.timeout = 0 THEN cacheTimeout ELSE e.timeout

CacheFreshLate(e, t) == t - e.timestamp <= EntryTimeout(e)

\* Date.now() - entry.timestamp < timeout
CacheFresh(e, t) == t - e.timestamp < EntryTimeout(e)

\* the value getCache(key) returns at time t
getCacheValue(c, key, t) ==
    IF MapIndex(c, key) = 0 THEN NULL
    ELSE IF CacheFresh(c[MapIndex(c, key)], t) THEN c[MapIndex(c, key)].data
    ELSE NULL

\* the cache after getCache(key) at time t: an expired entry is deleted
getCacheMap(c, key, t) ==
    IF MapIndex(c, key) = 0 THEN c
    ELSE IF CacheFresh(c[MapIndex(c, key)], t) THEN c
    ELSE MapDelete(c, key)

setCacheNoEvict(c, key, data, timeout, t) ==
    MapSet(c, [key |-> key, data |-> data, timestamp |-> t, timeout |-> timeout])

\* the cache after setCache(key, data, timeout) at time t
setCache(c, key, data, timeout, t) ==
    LET c1 == MapSet(c, [key |-> key, data |-> data, timestamp |-> t, timeout |-> timeout])
    IN  IF Len(c1) > CacheMaxSize
        THEN MapDelete(c1, c1[1].key)     \* this.cache.keys().next().value
        ELSE c1

----------------------------------------------------------------------------
(* The record of the last step *)

\* op: the operation; err: the error it raised, "" when none; val: the value
\* it returned or obtained from scan(); scan: "hit" or "miss" when the step
\* called scan(), "" otherwise; stored: the step assembled a snapshot after a
\* probe run; base: the baseline a tick compared against; firedAt: when that
\* tick's timer fired; cur: the startMonitoring call concerned is the latest one;
\* source, lines: the log and the lines (each a sequence of words) a step was
\* given; res: the result of a function called on its own; reentrant: a
\* handler of an event emitted by the step called stopMonitoring.
Act(op) ==
    [op |-> op, err |-> "", val |-> NULL, key |-> "", scan |-> "", stored |-> FALSE,
     base |-> NULL, firedAt |-> 0, cur |-> FALSE, evicted |-> "",
     source |-> "", lines |-> <<>>, res |-> NULL, reentrant |-> FALSE]

NoWrite == [data |-> NULL, at |-> 0, ttl |-> 0, set |-> FALSE]

----------------------------------------------------------------------------
(* Snapshots, readiness and the differ *)

RoleOrder == <<"vite", "convex">>
Roles == {RoleOrder[i] : i \in 1..Len(RoleOrder)}
EndpointOrder == <<"vite", "convex">>
Endpoints == {EndpointOrder[i] : i \in 1..Len(EndpointOrder)}

\* checkNetwork's endpoint table
EndpointPort(e) == IF e = "vite" THEN 5173 ELSE 3210

\* f applied to every element of s
MapSeq(s, f(_)) == [i \in 1..Len(s) |-> f(s[i])]

LintPointsInverted(errors) == IF errors = 0 THEN 0 ELSE IF errors < 10 THEN 10 ELSE 20

\* the lint share of the score
LintPoints(errors) == IF errors = 0 THEN 20 ELSE IF errors < 10 THEN 10 ELSE 0

ReadinessLevelStrict(score) ==
    IF score > 90 THEN "ready" ELSE IF score > 70 THEN "partial" ELSE "not-ready"

\* score >= 90 ? 'ready' : score >= 70 ? 'partial' : 'not-ready'
ReadinessLevel(score) ==
    IF score >= 90 THEN "ready" ELSE IF score >= 70 THEN "partial" ELSE "not-ready"

calculateReadiness(processes, network, quality) ==
    LET ts    == IF quality.typescript.clean THEN 40 ELSE 0
        tsIss == IF ~quality.typescript.clean /\ quality.typescript.errors > 0
                 THEN <<[about |-> "TypeScript", count |-> quality.typescript.errors]>>
                 ELSE <<>>
        bd    == IF quality.build.success THEN 30 ELSE 0
        bdIss == IF quality.build.success THEN <<>>
                 ELSE <<[about |-> "Build", count |-> 0]>>
        ln    == LintPoints(quality.lint.errors)
        lnIss == IF quality.lint.errors = 0 THEN <<>>
                 ELSE IF quality.lint.errors < 10
                      THEN IF quality.lint.fixable
                           THEN <<[about |-> "fixable lint", count |-> quality.lint.errors]>>
                           ELSE <<>>
                      ELSE <<[about |-> "lint", count |-> quality.lint.errors]>>
        hasRunningDev     == \E r \in Roles : processes[r] # 0
        hasHealthyNetwork == \E e \in Endpoints : network[e] = "healthy"
        dev   == IF hasRunningDev /\ hasHealthyNetwork THEN 10 ELSE 0
        score == ts + bd + ln + dev
        issues == tsIss \o bdIss \o lnIss
    IN  [score |-> score,
         level |-> ReadinessLevel(score),
         issues |-> issues,
         critical |-> SelectSeq(issues, LAMBDA i : i.about \in {"TypeScript", "Build"})]

\* the probes scan() fans out to: detectMonorepoStructure, scanProcesses,
\* checkNetwork, checkQuality's checkTypeScript, checkLint and checkBuild,
\* and getGitStatus
ProbeOrder == <<"monorepo", "processes", "network", "typescript", "lint", "build", "git">>
Probes == {ProbeOrder[i] : i \in 1..Len(ProbeOrder)}

\* where a probe can fail: detectMonorepoStructure while it reads package.json
\* or while it detects the frameworks (parseTurboConfig and findWorkspaces
\* catch their own errors); every other probe in the command it runs
FailModes(p) == IF p = "monorepo" THEN {"package.json", "frameworks"} ELSE {"failed"}

\* what probe p returns in environment e when nothing in it fails
Observe(e, p) ==
    CASE p = "monorepo" ->
           [type |-> IF e.mono.turbo \/ e.mono.workspaces THEN "monorepo" ELSE "single",
            tool |-> IF e.mono.turbo THEN "turbo"
                     ELSE IF e.mono.workspaces THEN "npm-workspaces" ELSE "null",
            rootPackage |-> TRUE,
            frameworks |-> "detected"]
      [] p = "processes" -> e.procs
      [] p = "network" -> e.net
      [] p = "typescript" -> e.quality.typescript
      [] p = "lint" -> e.quality.lint
      [] p = "build" -> e.quality.build
      [] p = "git" -> [branch |-> e.git.branch, changedFiles |-> e.git.changedFiles,
                       clean |-> e.git.changedFiles = 0]

\* what probe p returns from its catch when it fails in the way `how`
Degraded(e, p, how) ==
    CASE p = "monorepo" /\ how = "package.json" ->
           [type |-> IF e.mono.turbo THEN "monorepo" ELSE "single",
            tool |-> IF e.mono.turbo THEN "turbo" ELSE "null",
            rootPackage |-> FALSE,
            frameworks |-> "{}"]
      [] p = "monorepo" /\ how = "frameworks" ->
           [Observe(e, "monorepo") EXCEPT !.frameworks = "{}"]
      [] p = "processes" -> [r \in Roles |-> 0]
      [] p = "network" -> [n \in Endpoints |-> "offline"]
      [] p = "typescript" -> [errors |-> -1, clean |-> FALSE]
      [] p = "lint" -> [errors |-> 0, fixable |-> FALSE]
      [] p = "build" -> [success |-> FALSE]
      [] p = "git" -> [branch |-> "unknown", changedFiles |-> 0, clean |-> TRUE]

\* what probe p returns: how = "ok" when it succeeds
ProbeResult(e, p, how) == IF how = "ok" THEN Observe(e, p) ELSE Degraded(e, p, how)

\* the result object scan() builds from what the probes returned
Assemble(got, t, id) ==
    [id |-> id, timestamp |-> t,
     monorepo |-> got["monorepo"],
     processes |-> got["processes"],
     network |-> got["network"],
     quality |-> [typescript |-> got["typescript"], lint |-> got["lint"], build |-> got["build"]],
     git |-> got["git"],
     readiness |-> calculateReadiness(got["processes"], got["network"],
                      [typescript |-> got["typescript"], lint |-> got["lint"],
                       build |-> got["build"]])]

\* the object scan() assembles when every probe succeeds in environment e at time t
Snapshot(e, t, id) == Assemble([p \in Probes |-> Observe(e, p)], t, id)

\* a probe run: whether one is in flight, the probes not yet settled, how each
\* settled ("" not yet, "cached", "ok" or its failure) and what each returned
NoScan == [active |-> FALSE, pending |-> {}, how |-> [p \in Probes |-> ""],
           got |-> [p \in Probes |-> NULL]]

ChangesNetworkFirst(crashed, started, net, ready) == net \o crashed \o started \o ready

\* the order in which detectStateChanges pushes onto `changes`: the loop over
\* the earlier processes, the loop over the later processes, the loop over
\* the endpoints, the readiness test
Changes(crashed, started, net, ready) == crashed \o started \o net \o ready

\* detectStateChanges(before, after); reading before.processes of a null
\* `before` raises a TypeError, and so does reading .healthy of the missing
\* status of an endpoint that before.network has and after.network has not
detectStateChanges(before, after) ==
    IF before = NULL THEN [threw |-> TRUE, changes |-> <<>>]
    ELSE IF \E e \in Endpoints : before.network[e] # "absent" /\ after.network[e] = "absent"
    THEN [threw |-> TRUE, changes |-> <<>>]
    ELSE
    LET crashed == SelectSeq(RoleOrder,
                      LAMBDA r : before.processes[r] # 0 /\ after.processes[r] = 0)
        started == SelectSeq(RoleOrder,
                      LAMBDA r : after.processes[r] # 0 /\ before.processes[r] = 0)
        flipped == SelectSeq(EndpointOrder,
                      LAMBDA e : /\ before.network[e] # "absent"
                                 /\ before.network[e] # after.network[e])
        Crashed(r) == [type |-> "process:crashed", process |-> r, pid |-> before.processes[r]]
        Started(r) == [type |-> "process:started", process |-> r, pid |-> after.processes[r]]
        Net(e) == [type |-> IF before.network[e] = "healthy" THEN "network:down"
                            ELSE "network:up",
                   endpoint |-> e, port |-> EndpointPort(e)]
        ready == IF before.readiness.level # after.readiness.level
                 THEN <<[type |-> "readiness:changed", from |-> before.readiness.level,
                         to |-> after.readiness.level, score |-> after.readiness.score]>>
                 ELSE <<>>
    IN  [threw |-> FALSE,
         changes |-> Changes(MapSeq(crashed, Crashed), MapSeq(started, Started),
                             MapSeq(flipped, Net), ready)]

TickDiffNoGuard(base, cur) == detectStateChanges(base, cur)

\* the tick's `if (this.lastKnownState)` around the diff
TickDiff(base, cur) ==
    IF base # NULL THEN detectStateChanges(base, cur)
    ELSE [threw |-> FALSE, changes |-> <<>>]

\* the events the tick emits for a list of changes: 'state:changed' with the
\* whole list, then one event per process and network change
TickEmits(changes, base, cur) ==
    IF changes = <<>> THEN <<>>
    ELSE <<[type |-> "state:changed", changes |-> changes,
            before |-> base.id, after |-> cur.id]>>
         \o SelectSeq(changes, LAMBDA c : c.type \in {"process:crashed", "process:started",
                                                       "network:down", "network:up"})

MonitoringError == [type |-> "monitoring:error"]

\* the most events one tick emits: 'state:changed' and one per process and endpoint
MaxEvents == 1 + Len(RoleOrder) + Len(EndpointOrder)

TickOutcomeSilent(base, cur, listenerThrows) ==
    LET d  == TickDiff(base, cur)
        ev == TickEmits(d.changes, base, cur)
    IN  IF d.threw \/ (listenerThrows /\ ev # <<>>)
        THEN [events |-> IF d.threw THEN <<>> ELSE <<ev[1]>>, baseline |-> base, failed |-> TRUE]
        ELSE [events |-> ev, baseline |-> cur, failed |-> FALSE]

\* the body of the timer callback after `await this.scan()` returned cur:
\* what is emitted and what this.lastKnownState becomes. A listener that
\* throws does so on the first event emitted; the exception leaves the try
\* block and the catch emits 'monitoring:error'.
TickOutcome(base, cur, listenerThrows) ==
    LET d  == TickDiff(base, cur)
        ev == TickEmits(d.changes, base, cur)
    IN  IF d.threw
        THEN [events |-> <<MonitoringError>>, baseline |-> base, failed |-> TRUE]
        ELSE IF listenerThrows /\ ev # <<>>
        THEN [events |-> <<ev[1], MonitoringError>>, baseline |-> base, failed |-> TRUE]
        ELSE [events |-> ev, baseline |-> cur, failed |-> FALSE]

----------------------------------------------------------------------------
(* Client calls of the cache API, on a cache that earlier setCache calls    *)
(* have filled.                                                             *)

KeyOrder == <<"k1", "k2", "k3", "k4", "k5", "k6", "k7", "k8", "k9", "k10", "k11", "k12">>
AllKeys == {KeyOrder[i] : i \in 1..Len(KeyOrder)} \cup {"env_scan"}
OpKeys == {"k1", "k2", "k11"}
Ttls == {0, 2500, 5000}

\* the cache after setCache(k1, v), ..., setCache(kn, v) at time 0
RECURSIVE Filled(_)
Filled(n) ==
    IF n = 0 THEN <<>>
    ELSE setCache(Filled(n - 1), KeyOrder[n], Obj(1), cacheTimeout, 0)

FilledWritten(n) ==
    [k \in AllKeys |->
        IF \E i \in 1..n : KeyOrder[i] = k
        THEN [data |-> Obj(1), at |-> 0, ttl |-> cacheTimeout, set |-> TRUE]
        ELSE NoWrite]

\* the key that is in c and no longer in d, "" when there is none
Evicted(c, d) ==
    IF CacheKeys(c) \ CacheKeys(d) = {} THEN ""
    ELSE CHOOSE k \in CacheKeys(c) \ CacheKeys(d) : TRUE

\* the client passes a new object on every write
FreshValue == Obj(10 + ops)

SetCacheCall(key, data, timeout) ==
    /\ ops < MaxCacheOps
    /\ cache' = setCache(cache, key, data, timeout, now)
    /\ written' = [written EXCEPT ![key] = [data |-> data, at |-> now, ttl |-> timeout, set |-> TRUE]]
    /\ ops' = ops + 1
    /\ act' = [Act("setCache") EXCEPT !.key = key, !.val = data,
                                      !.evicted = Evicted(cache, setCache(cache, key, data, timeout, now))]
    /\ out' = <<>>
    /\ UNCHANGED <<now, monitorVars>>

GetCacheCall(key) ==
    /\ ops < MaxCacheOps
    /\ cache' = getCacheMap(cache, key, now)
    /\ ops' = ops + 1
    /\ act' = [Act("getCache") EXCEPT !.key = key, !.val = getCacheValue(cache, key, now)]
    /\ out' = <<>>
    /\ UNCHANGED <<now, written, monitorVars>>

CacheClock ==
    /\ now + TimeStep <= CacheMaxTime
    /\ now' = now + TimeStep
    /\ act' = Act("clock")
    /\ out' = <<>>
    /\ UNCHANGED <<cache, written, ops, monitorVars>>

Quality(tsErrors) ==
    [typescript |-> [errors |-> tsErrors, clean |-> tsErrors = 0],
     lint |-> [errors |-> 0, fixable |-> FALSE],
     build |-> [success |-> TRUE]]

\* nothing running, code clean
EnvIdle ==
    [procs |-> [r \in Roles |-> 0], net |-> [e \in Endpoints |-> "offline"], quality |-> Quality(0),
     mono |-> [turbo |-> FALSE, workspaces |-> FALSE], git |-> [branch |-> "main", changedFiles |-> 0]]

\* the vite dev server running and answering, code clean
EnvDev ==
    [procs |-> [r \in Roles |-> IF r = "vite" THEN 1 ELSE 0],
     net |-> [e \in Endpoints |-> IF e = "vite" THEN "healthy" ELSE "offline"],
     quality |-> Quality(0),
     mono |-> [turbo |-> FALSE, workspaces |-> FALSE], git |-> [branch |-> "main", changedFiles |-> 0]]

\* the course of the environment: the dev server comes up
EnvCourse == <<EnvIdle, EnvDev>>

EnvIndex(e) == CHOOSE i \in 1..Len(EnvCourse) : EnvCourse[i] = e

IdleEngine ==
    /\ monitoring = FALSE
    /\ logWatchers = [l \in {"dev-server", "build"} |-> 0]
    /\ tails = <<>>
    /\ timers = <<>>
    /\ processMonitor = 0
    /\ lastKnownState = NULL
    /\ env = EnvIdle
    /\ starts = <<>>
    /\ ticks = <<>>
    /\ userProbes = 0
    /\ nextId = 1
    /\ calls = 0
    /\ probing = NoScan

InitCache ==
    /\ now = 0
    /\ \E n \in {0, CacheMaxSize - 1, CacheMaxSize} :
          /\ cache = Filled(n)
          /\ written = FilledWritten(n)
    /\ ops = 0
    /\ act = Act("init")
    /\ out = <<>>
    /\ IdleEngine

NextCache ==
    \/ \E k \in OpKeys, t \in Ttls : SetCacheCall(k, FreshValue, t)
    \/ \E k \in OpKeys : GetCacheCall(k)
    \/ CacheClock

SpecCache == InitCache /\ [][NextCache]_vars

----------------------------------------------------------------------------
(* The monitor: startMonitoring, stopMonitoring, log watchers, the timer    *)
(* callback and on-demand scans, interleaved as Node's event loop allows.   *)
(* A step that resumes an async function after an await on an already       *)
(* settled promise is a microtask: timers, child-process events and I/O      *)
(* completions wait until no microtask is pending; calls made by the client  *)
(* can come at any point.                                                    *)
(* tails holds the tail processes that have not exited, timers the interval  *)
(* timers that are armed, starts the startMonitoring calls that have not     *)
(* returned. The cur field of each marks what belongs to the latest          *)
(* startMonitoring call that was accepted (the current session).             *)

\* options.logFiles and options.interval of startMonitoring
LogFiles == <<"dev-server", "build">>
LogNames == {LogFiles[i] : i \in 1..Len(LogFiles)}
MaxTails == MaxStarts * Len(LogFiles)
Intervals == {DefaultInterval}

Stopped == [type |-> "monitoring:stopped"]
Started == [type |-> "monitoring:started"]

Remove(s, i) == [j \in 1..(Len(s) - 1) |-> IF j < i THEN s[j] ELSE s[j + 1]]

Earlier(s) == [j \in 1..Len(s) |-> [s[j] EXCEPT !.cur = FALSE]]

MicrotaskPending == \E k \in 1..Len(starts) : starts[k].pc \in {"watch", "resume"}

\* how far a startMonitoring call has come: the watcher it awaits, then the
\* cached scan, then the probe run (which completes as a macrotask)
Stage(s) ==
    IF s.pc = "watch" THEN s.i
    ELSE IF s.pc = "resume" THEN Len(LogFiles) + 1
    ELSE Len(LogFiles) + 2

\* the microtask queue is first-in first-out: a later call runs its n-th
\* continuation after every earlier call has run its own
Turn(k) == \A j \in 1..(k - 1) : Stage(starts[j]) > Stage(starts[k])

Probing == {k \in 1..Len(starts) : starts[k].pc = "probe"}
InFlight == Len(ticks) + userProbes + Cardinality(Probing)
\* the model follows at most n probe runs in all
CanProbeWithin(n) == (nextId - 1) + InFlight < n
CanProbe == CanProbeWithin(MaxSnaps)

\* the monitor's steps make no client cache call and follow no probe one by one
CacheFrame == UNCHANGED <<written, ops, probing>>

scanUncached(c, t) == NULL

\* scan(): the cached value under 'env_scan', NULL on a miss
scanCached(c, t) == getCacheValue(c, "env_scan", t)

\* scan() after the probes have completed at time t: the snapshot it returns
scanResult(e, t, id) == Snapshot(e, t, id)

scanStoreNothing(c, result, t) == c

scanStoreFirst(c, result, t) ==
    IF "env_scan" \in CacheKeys(c) THEN c
    ELSE setCache(c, "env_scan", result, cacheTimeout, t)

\* this.setCache(cacheKey, result)
scanStore(c, result, t) == setCache(c, "env_scan", result, cacheTimeout, t)

StartRejectedNever == FALSE

\* startMonitoring's `if (this.monitoring) throw`
StartRejected == monitoring

\* startLogWatcher(log): the tail processes and the watcher table afterwards;
\* when it throws, nothing was spawned or registered
startLogWatcher(tl, lw, log, cur, fails) ==
    IF fails
    THEN [tails |-> tl, logWatchers |-> lw]
    ELSE [tails |-> Append(tl, [log |-> log, st |-> "running", cur |-> cur]),
          logWatchers |-> [lw EXCEPT ![log] = Len(tl) + 1]]

\* startMonitoring(options), up to its first await
StartCall(iv, fails) ==
    /\ out' = <<>>
    /\ CacheFrame
    /\ UNCHANGED <<now, cache, processMonitor, lastKnownState, env, ticks,
                   userProbes, nextId>>
    /\ IF StartRejected
       THEN /\ act' = [Act("startMonitoring") EXCEPT !.err = "Monitoring already active"]
            /\ UNCHANGED <<monitoring, logWatchers, tails, timers, starts, calls>>
       ELSE LET w == startLogWatcher(Earlier(tails), logWatchers, LogFiles[1], TRUE, fails)
            IN  /\ calls < MaxStarts
                /\ calls' = calls + 1
                /\ monitoring' = TRUE
                /\ tails' = w.tails
                /\ logWatchers' = w.logWatchers
                /\ timers' = Earlier(timers)
                /\ starts' = Append(Earlier(starts),
                                    [pc |-> "watch", i |-> 1, interval |-> iv,
                                     failed |-> fails, val |-> NULL, cur |-> TRUE])
                /\ act' = [Act("startMonitoring") EXCEPT !.cur = TRUE]

\* startMonitoring's catch block
StartCatch(k, why) ==
    /\ monitoring' = FALSE
    /\ starts' = Remove(starts, k)
    /\ act' = [Act("startMonitoring:return") EXCEPT !.err = why, !.cur = starts[k].cur]

\* startMonitoring resumed after `await this.startLogWatcher(logName)`
StartStep(k, fails) ==
    /\ k \in 1..Len(starts)
    /\ starts[k].pc = "watch"
    /\ Turn(k)
    /\ CacheFrame
    /\ UNCHANGED calls
    /\ UNCHANGED <<now, lastKnownState, env, ticks, userProbes, nextId>>
    /\ IF starts[k].failed
       THEN /\ StartCatch(k, "watcher failed to start")
            /\ out' = <<>>
            /\ ~fails
            /\ UNCHANGED <<cache, logWatchers, tails, timers, processMonitor>>
       ELSE IF starts[k].i < Len(LogFiles)
       THEN LET w == startLogWatcher(tails, logWatchers, LogFiles[starts[k].i + 1],
                                     starts[k].cur, fails)
            IN  /\ tails' = w.tails
                /\ logWatchers' = w.logWatchers
                /\ starts' = [starts EXCEPT ![k].i = @ + 1, ![k].failed = fails]
                /\ act' = [Act("startMonitoring:watch") EXCEPT !.cur = starts[k].cur]
                /\ out' = <<>>
                /\ UNCHANGED <<cache, monitoring, timers, processMonitor>>
       ELSE \* startProcessMonitoring(interval), then `await this.scan()`
            /\ ~fails
            /\ timers' = Append(timers, [interval |-> starts[k].interval,
                                         next |-> now + starts[k].interval,
                                         cur |-> starts[k].cur])
            /\ processMonitor' = Len(timers) + 1
            /\ cache' = getCacheMap(cache, "env_scan", now)
            /\ IF scanCached(cache, now) # NULL
               THEN /\ starts' = [starts EXCEPT ![k].pc = "resume",
                                                ![k].val = scanCached(cache, now)]
                    /\ act' = [Act("startMonitoring:scan") EXCEPT !.cur = starts[k].cur,
                                   !.scan = "hit", !.val = scanCached(cache, now)]
               ELSE /\ CanProbe
                    /\ starts' = [starts EXCEPT ![k].pc = "probe"]
                    /\ act' = [Act("startMonitoring:scan") EXCEPT !.cur = starts[k].cur,
                                   !.scan = "miss"]
            /\ out' = <<>>
            /\ UNCHANGED <<monitoring, logWatchers, tails>>

\* startMonitoring after scan() returned val: store the baseline, emit
\* 'monitoring:started' and return
StartFinish(k, val) ==
    /\ lastKnownState' = val
    /\ out' = <<Started>>
    /\ starts' = Remove(starts, k)
    /\ UNCHANGED monitoring

\* startMonitoring resumed with the cached snapshot
StartResume(k) ==
    /\ k \in 1..Len(starts)
    /\ starts[k].pc = "resume"
    /\ Turn(k)
    /\ StartFinish(k, starts[k].val)
    /\ act' = [Act("startMonitoring:return") EXCEPT !.cur = starts[k].cur,
                                                    !.val = starts[k].val]
    /\ CacheFrame
    /\ UNCHANGED calls
    /\ UNCHANGED <<now, cache, logWatchers, tails, timers, processMonitor, env, ticks,
                   userProbes, nextId>>

\* the probe run of startMonitoring's scan() completes
StartProbeDone(k) ==
    /\ ~MicrotaskPending
    /\ k \in Probing
    /\ cache' = scanStore(cache, scanResult(env, now, nextId), now)
    /\ nextId' = nextId + 1
    /\ StartFinish(k, scanResult(env, now, nextId))
    /\ act' = [Act("startMonitoring:return") EXCEPT !.cur = starts[k].cur, !.stored = TRUE,
                                                    !.val = scanResult(env, now, nextId)]
    /\ CacheFrame
    /\ UNCHANGED calls
    /\ UNCHANGED <<now, logWatchers, tails, timers, processMonitor, env, ticks, userProbes>>

\* watcher.kill() for every handle in the table
KillRegistered(tl, lw) ==
    [i \in 1..Len(tl) |->
        IF \E l \in LogNames : lw[l] = i THEN [tl[i] EXCEPT !.st = "killed"] ELSE tl[i]]

\* clearInterval(this.processMonitor)
ClearInterval(tm, pm) == IF pm # 0 THEN Remove(tm, pm) ELSE tm

StopIgnoredNever == FALSE

\* stopMonitoring's `if (!this.monitoring) return`
StopIgnored == ~monitoring

\* stopMonitoring()
StopCall ==
    /\ CacheFrame
    /\ UNCHANGED calls
    /\ UNCHANGED <<now, cache, lastKnownState, env, starts, ticks, userProbes, nextId>>
    /\ IF StopIgnored
       THEN /\ act' = Act("stopMonitoring")
            /\ out' = <<>>
            /\ UNCHANGED <<monitoring, logWatchers, tails, timers, processMonitor>>
       ELSE /\ monitoring' = FALSE
            /\ tails' = KillRegistered(tails, logWatchers)
            /\ logWatchers' = [l \in LogNames |-> 0]
            /\ timers' = ClearInterval(timers, processMonitor)
            /\ processMonitor' = 0
            /\ out' = <<Stopped>>
            /\ act' = Act("stopMonitoring")

\* the 'close' event of a killed tail process: this.logWatchers.delete(logName)
TailClose(i) ==
    /\ ~MicrotaskPending
    /\ i \in 1..Len(tails)
    /\ tails[i].st = "killed"
    /\ tails' = Remove(tails, i)
    /\ logWatchers' = [l \in LogNames |->
                          IF l = tails[i].log THEN 0
                          ELSE IF logWatchers[l] > i THEN logWatchers[l] - 1
                          ELSE logWatchers[l]]
    /\ out' = <<[type |-> "log:watcher:closed", source |-> tails[i].log]>>
    /\ act' = Act("close")
    /\ CacheFrame
    /\ UNCHANGED calls
    /\ UNCHANGED <<now, cache, monitoring, timers, processMonitor, lastKnownState, env,
                   starts, ticks, userProbes, nextId>>

\* the timer callback from `await this.scan()` on, scan() having returned cur
TickBody(cur, firedAt, listenerThrows, how) ==
    LET o == TickOutcome(lastKnownState, cur, listenerThrows)
    IN  /\ listenerThrows => o.failed
        /\ lastKnownState' = o.baseline
        /\ out' = o.events
        /\ act' = [Act("tick") EXCEPT !.val = cur, !.base = lastKnownState,
                                      !.firedAt = firedAt, !.scan = how,
                                      !.stored = (how = "miss"),
                                      !.err = IF o.failed THEN "tick failed" ELSE ""]

\* the interval timer j fires: the callback of startProcessMonitoring runs
\* up to `await this.scan()`, and through to its end on a cache hit
TimerFires(j, listenerThrows, n) ==
    /\ ~MicrotaskPending
    /\ j \in 1..Len(timers)
    /\ now >= timers[j].next
    /\ timers' = [timers EXCEPT ![j].next = now + timers[j].interval]
    /\ cache' = getCacheMap(cache, "env_scan", now)
    /\ IF scanCached(cache, now) # NULL
       THEN /\ TickBody(scanCached(cache, now), now, listenerThrows, "hit")
            /\ UNCHANGED ticks
       ELSE /\ ~listenerThrows
            /\ CanProbeWithin(n)
            /\ ticks' = Append(ticks, now)
            /\ act' = [Act("tick:scan") EXCEPT !.scan = "miss", !.firedAt = now]
            /\ out' = <<>>
            /\ UNCHANGED lastKnownState
    /\ CacheFrame
    /\ UNCHANGED calls
    /\ UNCHANGED <<now, monitoring, logWatchers, tails, processMonitor, env, starts,
                   userProbes, nextId>>

TimerFire(j, listenerThrows) == TimerFires(j, listenerThrows, MaxSnaps)

\* the timer callback from `await this.scan()` on when the handler of the
\* k-th event it emits calls stopMonitoring(): stopMonitoring has no await
\* and runs to its end inside emit, then the callback goes on emitting.
\* tm: the timers as the firing left them.
TickBodyStops(cur, firedAt, how, k, tm) ==
    LET o == TickOutcome(lastKnownState, cur, FALSE)
    IN  /\ ~StopIgnored
        /\ ~o.failed
        /\ k \in 1..Len(o.events)
        /\ lastKnownState' = o.baseline
        /\ out' = SubSeq(o.events, 1, k) \o <<Stopped>>
                     \o SubSeq(o.events, k + 1, Len(o.events))
        /\ monitoring' = FALSE
        /\ tails' = KillRegistered(tails, logWatchers)
        /\ logWatchers' = [l \in LogNames |-> 0]
        /\ timers' = ClearInterval(tm, processMonitor)
        /\ processMonitor' = 0
        /\ act' = [Act("tick") EXCEPT !.val = cur, !.base = lastKnownState,
                                      !.firedAt = firedAt, !.scan = how,
                                      !.stored = (how = "miss"), !.reentrant = TRUE]

\* the timer j fires, scan() answers from the cache, and a handler stops the monitor
TimerFireStops(j, k) ==
    /\ ~MicrotaskPending
    /\ j \in 1..Len(timers)
    /\ now >= timers[j].next
    /\ scanCached(cache, now) # NULL
    /\ cache' = getCacheMap(cache, "env_scan", now)
    /\ TickBodyStops(scanCached(cache, now), now, "hit", k,
                     [timers EXCEPT ![j].next = now + timers[j].interval])
    /\ CacheFrame
    /\ UNCHANGED <<now, env, starts, ticks, userProbes, nextId, calls>>

\* the probe run of a tick's scan() completes, and a handler stops the monitor
TickProbeDoneStops(i, k) ==
    /\ ~MicrotaskPending
    /\ i \in 1..Len(ticks)
    /\ ticks' = Remove(ticks, i)
    /\ cache' = scanStore(cache, scanResult(env, now, nextId), now)
    /\ nextId' = nextId + 1
    /\ TickBodyStops(scanResult(env, now, nextId), ticks[i], "miss", k, timers)
    /\ CacheFrame
    /\ UNCHANGED <<now, env, starts, userProbes, calls>>

\* the probe run of a tick's scan() completes and the callback resumes
TickProbeDone(i, listenerThrows) ==
    /\ ~MicrotaskPending
    /\ i \in 1..Len(ticks)
    /\ ticks' = Remove(ticks, i)
    /\ cache' = scanStore(cache, scanResult(env, now, nextId), now)
    /\ nextId' = nextId + 1
    /\ TickBody(scanResult(env, now, nextId), ticks[i], listenerThrows, "miss")
    /\ CacheFrame
    /\ UNCHANGED calls
    /\ UNCHANGED <<now, monitoring, logWatchers, tails, timers, processMonitor, env,
                   starts, userProbes>>

\* scan() called by the client (directly or through status())
UserScans(n) ==
    /\ cache' = getCacheMap(cache, "env_scan", now)
    /\ IF scanCached(cache, now) # NULL
       THEN /\ act' = [Act("scan") EXCEPT !.scan = "hit", !.val = scanCached(cache, now)]
            /\ UNCHANGED userProbes
       ELSE /\ CanProbeWithin(n)
            /\ userProbes' = userProbes + 1
            /\ act' = [Act("scan") EXCEPT !.scan = "miss"]
    /\ out' = <<>>
    /\ CacheFrame
    /\ UNCHANGED calls
    /\ UNCHANGED <<now, monitoring, logWatchers, tails, timers, processMonitor,
                   lastKnownState, env, starts, ticks, nextId>>

UserScan == UserScans(MaxSnaps)

\* the probe run of a client's scan() completes
UserProbeDone ==
    /\ ~MicrotaskPending
    /\ userProbes > 0
    /\ userProbes' = userProbes - 1
    /\ cache' = scanStore(cache, scanResult(env, now, nextId), now)
    /\ nextId' = nextId + 1
    /\ act' = [Act("scan:return") EXCEPT !.val = scanResult(env, now, nextId), !.stored = TRUE]
    /\ out' = <<>>
    /\ CacheFrame
    /\ UNCHANGED calls
    /\ UNCHANGED <<now, monitoring, logWatchers, tails, timers, processMonitor,
                   lastKnownState, env, starts, ticks>>

\* the observed environment changes
EnvChange ==
    /\ ~MicrotaskPending
    /\ EnvIndex(env) < Len(EnvCourse)
    /\ env' = EnvCourse[EnvIndex(env) + 1]
    /\ act' = Act("env")
    /\ out' = <<>>
    /\ CacheFrame
    /\ UNCHANGED calls
    /\ UNCHANGED <<now, cache, monitoring, logWatchers, tails, timers, processMonitor,
                   lastKnownState, starts, ticks, userProbes, nextId>>

TimerDue == \E j \in 1..Len(timers) : now >= timers[j].next

\* time passes, up to max; a timer that is due fires before more time passes
TimePasses(max) ==
    /\ ~MicrotaskPending
    /\ ~TimerDue
    /\ now + TimeStep <= max
    /\ now' = now + TimeStep
    /\ act' = Act("clock")
    /\ out' = <<>>
    /\ CacheFrame
    /\ UNCHANGED calls
    /\ UNCHANGED <<cache, monitoring, logWatchers, tails, timers, processMonitor,
                   lastKnownState, env, starts, ticks, userProbes, nextId>>

AdvanceTime == TimePasses(MaxTime)

Init ==
    /\ now = 0
    /\ cache = <<>>
    /\ written = [k \in AllKeys |-> NoWrite]
    /\ ops = 0
    /\ act = Act("init")
    /\ out = <<>>
    /\ IdleEngine

Next ==
    \/ \E iv \in Intervals, f \in BOOLEAN : StartCall(iv, f)
    \/ \E k \in 1..MaxStarts, f \in BOOLEAN : StartStep(k, f)
    \/ \E k \in 1..MaxStarts : StartResume(k)
    \/ \E k \in 1..MaxStarts : StartProbeDone(k)
    \/ StopCall
    \/ \E i \in 1..MaxTails : TailClose(i)
    \/ \E j \in 1..MaxStarts, t \in BOOLEAN : TimerFire(j, t)
    \/ \E i \in 1..MaxSnaps, t \in BOOLEAN : TickProbeDone(i, t)
    \/ \E j \in 1..MaxStarts, k \in 1..MaxEvents : TimerFireStops(j, k)
    \/ \E i \in 1..MaxSnaps, k \in 1..MaxEvents : TickProbeDoneStops(i, k)
    \/ UserScan
    \/ UserProbeDone
    \/ EnvChange
    \/ AdvanceTime

Spec == Init /\ [][Next]_vars

----------------------------------------------------------------------------
(* The timer loop with an interval shorter than a probe run. It starts in   *)
(* the state startMonitoring({interval: LoopInterval}) is in while it       *)
(* awaits its initial scan: both watchers started, the timer armed, the     *)
(* probes of the initial scan running.                                      *)

InitLoop ==
    LET w1 == startLogWatcher(<<>>, [l \in LogNames |-> 0], LogFiles[1], TRUE, FALSE)
        w2 == startLogWatcher(w1.tails, w1.logWatchers, LogFiles[2], TRUE, FALSE)
    IN  /\ now = 0
        /\ cache = <<>>
        /\ written = [k \in AllKeys |-> NoWrite]
        /\ ops = 0
        /\ act = [Act("startMonitoring:scan") EXCEPT !.cur = TRUE, !.scan = "miss"]
        /\ out = <<>>
        /\ monitoring = TRUE
        /\ logWatchers = w2.logWatchers
        /\ tails = w2.tails
        /\ timers = <<[interval |-> LoopInterval, next |-> LoopInterval, cur |-> TRUE]>>
        /\ processMonitor = 1
        /\ lastKnownState = NULL
        /\ env = EnvIdle
        /\ starts = <<[pc |-> "probe", i |-> Len(LogFiles), interval |-> LoopInterval,
                       failed |-> FALSE, val |-> NULL, cur |-> TRUE]>>
        /\ ticks = <<>>
        /\ userProbes = 0
        /\ nextId = 1
        /\ calls = 1
        /\ probing = NoScan

LoopTimerFire(j, listenerThrows) == TimerFires(j, listenerThrows, LoopSnaps)

LoopUserScan == UserScans(LoopSnaps)

\* captureDevServerOutput(): it spawns the dev server and then calls
\* startLogWatcher('dev-server'), whatever the monitoring flag and the table hold
CaptureDevServerOutput ==
    /\ Len(tails) < MaxTails
    /\ LET w == startLogWatcher(tails, logWatchers, "dev-server", monitoring, FALSE)
       IN  /\ tails' = w.tails
           /\ logWatchers' = w.logWatchers
    /\ act' = Act("captureDevServerOutput")
    /\ out' = <<>>
    /\ CacheFrame
    /\ UNCHANGED <<now, cache, monitoring, timers, processMonitor, lastKnownState, env,
                   starts, ticks, userProbes, nextId, calls>>

NextLoop ==
    \/ \E t \in BOOLEAN : LoopTimerFire(1, t)
    \/ \E i \in 1..LoopSnaps, t \in BOOLEAN : TickProbeDone(i, t)
    \/ \E k \in 1..MaxEvents : TimerFireStops(1, k)
    \/ \E i \in 1..LoopSnaps, k \in 1..MaxEvents : TickProbeDoneStops(i, k)
    \/ StartProbeDone(1)
    \/ StopCall
    \/ CaptureDevServerOutput
    \/ \E i \in 1..MaxTails : TailClose(i)
    \/ LoopUserScan
    \/ UserProbeDone
    \/ EnvChange
    \/ AdvanceTime

SpecLoop == InitLoop /\ [][NextLoop]_vars

----------------------------------------------------------------------------
(* A second session. It starts in the state a first session leaves behind   *)
(* once its cached snapshot has expired: startMonitoring() took its         *)
(* baseline at time 0, stopMonitoring() was called, both tails have closed, *)
(* and cacheTimeout has passed. stopMonitoring does not touch               *)
(* lastKnownState, so the first session's baseline is still there.          *)

\* the baseline the first session took and stopMonitoring left in place
Leftover == scanResult(EnvIdle, 0, 1)

\* the earliest time at which the first session's cache entry has expired
RestartTime == cacheTimeout

RestartMaxTime == RestartTime + 2 * TimeStep

RestartSnaps == LoopSnaps + 1

InitRestart ==
    /\ now = RestartTime
    /\ cache = scanStore(<<>>, Leftover, 0)
    /\ written = [k \in AllKeys |-> NoWrite]
    /\ ops = 0
    /\ act = Act("clock")
    /\ out = <<>>
    /\ monitoring = FALSE
    /\ logWatchers = [l \in LogNames |-> 0]
    /\ tails = <<>>
    /\ timers = <<>>
    /\ processMonitor = 0
    /\ lastKnownState = Leftover
    /\ env = EnvIdle
    /\ starts = <<>>
    /\ ticks = <<>>
    /\ userProbes = 0
    /\ nextId = Leftover.id + 1
    /\ calls = 1
    /\ probing = NoScan

RestartTimerFire(j, listenerThrows) == TimerFires(j, listenerThrows, RestartSnaps)

RestartUserScan == UserScans(RestartSnaps)

RestartAdvanceTime == TimePasses(RestartMaxTime)

NextRestart ==
    \/ \E f \in BOOLEAN : StartCall(LoopInterval, f)
    \/ \E f \in BOOLEAN : StartStep(1, f)
    \/ StartResume(1)
    \/ StartProbeDone(1)
    \/ StopCall
    \/ \E i \in 1..MaxTails : TailClose(i)
    \/ \E t \in BOOLEAN : RestartTimerFire(1, t)
    \/ \E i \in 1..RestartSnaps, t \in BOOLEAN : TickProbeDone(i, t)
    \/ RestartUserScan
    \/ UserProbeDone
    \/ EnvChange
    \/ RestartAdvanceTime

SpecRestart == InitRestart /\ [][NextRestart]_vars

----------------------------------------------------------------------------
(* detectStateChanges called on pairs of snapshots. The snapshots range     *)
(* over every process map with pids up to MaxPid, every network map in      *)
(* which an endpoint is healthy, offline or missing, and a few readiness    *)
(* results; the engine itself is idle.                                      *)

Pids == 0..MaxPid
NetStatus == {"healthy", "offline", "absent"}

Readiness(score, level) == [score |-> score, level |-> level, issues |-> <<>>, critical |-> <<>>]

DiffReadiness == {Readiness(100, "ready"), Readiness(90, "ready"), Readiness(80, "partial")}

DiffSnaps ==
    {[id |-> 1, timestamp |-> 0, processes |-> ps, network |-> nw, readiness |-> rd] :
        ps \in [Roles -> Pids], nw \in [Endpoints -> NetStatus], rd \in DiffReadiness}

InitDiff ==
    /\ now = 0
    /\ cache = <<>>
    /\ written = [k \in AllKeys |-> NoWrite]
    /\ ops = 0
    /\ out = <<>>
    /\ IdleEngine
    /\ \E b \in DiffSnaps, a \in DiffSnaps :
          act = [Act("input") EXCEPT !.base = b, !.val = a]

\* this.detectStateChanges(before, after) called with the two snapshots
DiffCall ==
    /\ act.op = "input"
    /\ LET d == detectStateChanges(act.base, act.val)
       IN  /\ act' = [act EXCEPT !.op = "detectStateChanges",
                                 !.err = IF d.threw THEN "TypeError" ELSE ""]
           /\ out' = d.changes
    /\ UNCHANGED <<now, cache, written, ops, monitorVars>>

\* the timer callback emits the events of the changes detectStateChanges returned
EmitCall ==
    /\ act.op = "detectStateChanges"
    /\ act.err = ""
    /\ act' = [act EXCEPT !.op = "tick:emit"]
    /\ out' = TickEmits(out, act.base, act.val)
    /\ UNCHANGED <<now, cache, written, ops, monitorVars>>

NextDiff ==
    \/ DiffCall
    \/ EmitCall

SpecDiff == InitDiff /\ [][NextDiff]_vars

----------------------------------------------------------------------------
(* Log lines. A text is the sequence of its characters. The lines fed to    *)
(* the classifier and to the watchers are made of the words below, joined   *)
(* by single spaces.                                                        *)

Words == {"ERROR", "failed", "Warning", "ready", "http://a", "ok", "  "}

\* the characters of a word
Text(w) ==
    CASE w = "ERROR"    -> <<"E", "R", "R", "O", "R">>
      [] w = "failed"   -> <<"f", "a", "i", "l", "e", "d">>
      [] w = "Warning"  -> <<"W", "a", "r", "n", "i", "n", "g">>
      [] w = "ready"    -> <<"r", "e", "a", "d", "y">>
      [] w = "http://a" -> <<"h", "t", "t", "p", ":", "/", "/", "a">>
      [] w = "ok"       -> <<"o", "k">>
      [] OTHER          -> <<" ", " ">>

RECURSIVE LineText(_)
\* the words of a line joined by single spaces
LineText(ws) ==
    IF ws = <<>> THEN <<>>
    ELSE IF Len(ws) = 1 THEN Text(ws[1])
    ELSE Text(ws[1]) \o <<" ">> \o LineText(Tail(ws))

RECURSIVE ChunkText(_)
\* the lines of a chunk, each ended by a newline
ChunkText(ls) ==
    IF ls = <<>> THEN <<>>
    ELSE LineText(ls[1]) \o <<"\n">> \o ChunkText(Tail(ls))

\* String.prototype.toLowerCase on one character
ToLower(c) ==
    CASE c = "E" -> "e" [] c = "R" -> "r" [] c = "O" -> "o" [] c = "W" -> "w"
      [] OTHER -> c

IsSpace(c) == c \in {" ", "\n"}

StartsAt(t, i, pat) ==
    /\ i + Len(pat) - 1 <= Len(t)
    /\ \A j \in 1..Len(pat) : t[i + j - 1] = pat[j]

Lowered(t) == [i \in 1..Len(t) |-> ToLower(t[i])]

RegexTestExact(t, pats) ==
    \E pat \in pats : \E i \in 1..Len(t) : StartsAt(t, i, pat)

\* /a|b|c/i.test(t): some alternative occurs in t, letter case ignored
RegexTestI(t, pats) ==
    \E pat \in pats : \E i \in 1..Len(t) : StartsAt(Lowered(t), i, pat)

ErrorPatterns ==
    { <<"e", "r", "r", "o", "r">>, <<"f", "a", "i", "l", "e", "d">>,
      <<"e", "x", "c", "e", "p", "t", "i", "o", "n">>, <<"f", "a", "t", "a", "l">>,
      <<"c", "r", "a", "s", "h">> }

WarningPatterns ==
    { <<"w", "a", "r", "n">>, <<"w", "a", "r", "n", "i", "n", "g">>,
      <<"d", "e", "p", "r", "e", "c", "a", "t", "e", "d">> }

SuccessPatterns ==
    { <<"s", "u", "c", "c", "e", "s", "s">>, <<"c", "o", "m", "p", "i", "l", "e", "d">>,
      <<"r", "e", "a", "d", "y">>, <<"l", "i", "s", "t", "e", "n", "i", "n", "g">>,
      <<"s", "t", "a", "r", "t", "e", "d">>, <<"b", "u", "i", "l", "t">>,
      <<"c", "o", "m", "p", "l", "e", "t", "e">> }

\* where the text after the scheme of a URL that starts at i begins, 0 if no
\* URL starts at i: /https?:\/\/[^\s]+/
UrlBody(t, i) ==
    LET k == IF StartsAt(t, i, <<"h", "t", "t", "p", "s", ":", "/", "/">>) THEN i + 8
             ELSE IF StartsAt(t, i, <<"h", "t", "t", "p", ":", "/", "/">>) THEN i + 7
             ELSE 0
    IN  IF k # 0 /\ k <= Len(t) /\ ~IsSpace(t[k]) THEN k ELSE 0

\* line.match(/https?:\/\/[^\s]+/): the first match, <<>> when there is none
UrlMatch(t) ==
    LET at == {i \in 1..Len(t) : UrlBody(t, i) # 0}
    IN  IF at = {} THEN <<>>
        ELSE LET i == CHOOSE x \in at : \A y \in at : x <= y
                 e == CHOOSE x \in i..Len(t) :
                         /\ \A y \in i..x : ~IsSpace(t[y])
                         /\ x = Len(t) \/ IsSpace(t[x + 1])
             IN  SubSeq(t, i, e)

\* String.prototype.trim
Trim(t) ==
    LET ink == {i \in 1..Len(t) : ~IsSpace(t[i])}
    IN  IF ink = {} THEN <<>>
        ELSE SubSeq(t, CHOOSE x \in ink : \A y \in ink : x <= y,
                       CHOOSE x \in ink : \A y \in ink : x >= y)

\* parseLogLine(line)
parseLogLine(line) ==
    IF RegexTestI(line, ErrorPatterns)
    THEN [type |-> "error", message |-> Trim(line), url |-> <<>>]
    ELSE IF RegexTestI(line, WarningPatterns)
    THEN [type |-> "warning", message |-> Trim(line), url |-> <<>>]
    ELSE IF RegexTestI(line, SuccessPatterns)
    THEN [type |-> "success", message |-> Trim(line), url |-> <<>>]
    ELSE IF UrlMatch(line) # <<>>
    THEN [type |-> "url", message |-> Trim(line), url |-> UrlMatch(line)]
    ELSE [type |-> "info", message |-> Trim(line), url |-> <<>>]

\* content.split('\n')
Split(t) ==
    LET cuts == {i \in 1..Len(t) : t[i] = "\n"}
        Cut(n) == IF n = 0 THEN 0
                  ELSE IF n > Cardinality(cuts) THEN Len(t) + 1
                  ELSE CHOOSE i \in cuts : Cardinality({j \in cuts : j < i}) = n - 1
    IN  [n \in 1..(Cardinality(cuts) + 1) |-> SubSeq(t, Cut(n - 1) + 1, Cut(n) - 1)]

\* the event analyzeLogEntry emits for a line, by its classification
LineEvent(source, line) ==
    LET a == parseLogLine(line)
    IN  IF a.type = "url"
        THEN [type |-> "terminal:url", source |-> source, url |-> a.url, line |-> line]
        ELSE [type |-> "terminal:" \o a.type, source |-> source, message |-> a.message,
              line |-> line]

analyzeLogEntryAll(source, content) ==
    LET lines == Split(content)
    IN  [i \in 1..Len(lines) |-> LineEvent(source, lines[i])]

\* analyzeLogEntry({source, content}): the events it emits, in order
analyzeLogEntry(source, content) ==
    LET lines == SelectSeq(Split(content), LAMBDA l : Trim(l) # <<>>)
        told  == SelectSeq(lines, LAMBDA l : parseLogLine(l).type # "info")
    IN  [i \in 1..Len(told) |-> LineEvent(source, told[i])]

\* the lines given to parseLogLine and those written to the watched logs
ParsedLines == UNION {[1..n -> Words] : n \in 1..MaxLineWords}
ChunkLines == {<<w>> : w \in Words} \cup {<<"ERROR", "http://a">>}
Chunks == UNION {[1..n -> ChunkLines] : n \in 1..MaxChunkLines}

\* the engine with a watcher started on each log
InitLog ==
    LET w1 == startLogWatcher(<<>>, [l \in LogNames |-> 0], LogFiles[1], TRUE, FALSE)
        w2 == startLogWatcher(w1.tails, w1.logWatchers, LogFiles[2], TRUE, FALSE)
    IN  /\ now = 0
        /\ cache = <<>>
        /\ written = [k \in AllKeys |-> NoWrite]
        /\ ops = 0
        /\ act = Act("init")
        /\ out = <<>>
        /\ monitoring = FALSE
        /\ logWatchers = w2.logWatchers
        /\ tails = w2.tails
        /\ timers = <<>>
        /\ processMonitor = 0
        /\ lastKnownState = NULL
        /\ env = EnvIdle
        /\ starts = <<>>
        /\ ticks = <<>>
        /\ userProbes = 0
        /\ nextId = 1
        /\ calls = 0
        /\ probing = NoScan

\* parseLogLine(line) called by the client
ParseCall(ws) ==
    /\ act' = [Act("parseLogLine") EXCEPT !.lines = <<ws>>,
                                          !.res = parseLogLine(LineText(ws))]
    /\ out' = <<>>
    /\ UNCHANGED <<now, cache, written, ops, monitorVars>>

\* the 'data' handler of a tail's stdout, run on a chunk appended to the log
LogData(i, ls) ==
    /\ i \in 1..Len(tails)
    /\ tails[i].st = "running"
    /\ act' = [Act("log:data") EXCEPT !.source = tails[i].log, !.lines = ls]
    /\ out' = analyzeLogEntry(tails[i].log, ChunkText(ls))
                 \o <<[type |-> "log:entry", source |-> tails[i].log,
                       content |-> ChunkText(ls)]>>
    /\ UNCHANGED <<now, cache, written, ops, monitorVars>>

NextLog ==
    \/ \E ws \in ParsedLines : ParseCall(ws)
    \/ \E i \in 1..Len(LogFiles), ls \in Chunks : LogData(i, ls)

SpecLog == InitLog /\ [][NextLog]_vars

----------------------------------------------------------------------------
(* calculateReadiness called on the results of the probes, and again after  *)
(* one of them has improved.                                                *)

\* checkTypeScript: clean, three errors, or the result of a failed run
TsResults ==
    {[errors |-> 0, clean |-> TRUE], [errors |-> 3, clean |-> FALSE],
     [errors |-> -1, clean |-> FALSE]}

ReadyEnvs ==
    {[procs |-> ps, net |-> nw,
      quality |-> [typescript |-> ts, lint |-> [errors |-> le, fixable |-> fx],
                   build |-> [success |-> bs]]] :
        ps \in [Roles -> {0, 1}], nw \in [Endpoints -> {"healthy", "offline"}],
        ts \in TsResults, le \in 0..MaxLint, fx \in BOOLEAN, bs \in BOOLEAN}

InitReadiness ==
    /\ now = 0
    /\ cache = <<>>
    /\ written = [k \in AllKeys |-> NoWrite]
    /\ ops = 0
    /\ act = Act("init")
    /\ out = <<>>
    /\ monitoring = FALSE
    /\ logWatchers = [l \in LogNames |-> 0]
    /\ tails = <<>>
    /\ timers = <<>>
    /\ processMonitor = 0
    /\ lastKnownState = NULL
    /\ env \in ReadyEnvs
    /\ starts = <<>>
    /\ ticks = <<>>
    /\ userProbes = 0
    /\ nextId = 1
    /\ calls = 0
    /\ probing = NoScan

ReadinessOf(e) == calculateReadiness(e.procs, e.net, e.quality)

ReadinessFrame ==
    UNCHANGED <<now, cache, written, ops, out, monitoring, logWatchers, tails, timers,
                processMonitor, lastKnownState, starts, ticks, userProbes, probing, nextId,
                calls>>

\* calculateReadiness(processes, network, quality) on the present results
Assess ==
    /\ act' = [Act("calculateReadiness") EXCEPT !.res = ReadinessOf(env)]
    /\ UNCHANGED env
    /\ ReadinessFrame

\* one input improves, and calculateReadiness is called before and after
Improve(how, e) ==
    /\ env' = e
    /\ act' = [Act(how) EXCEPT !.base = ReadinessOf(env), !.res = ReadinessOf(e)]
    /\ ReadinessFrame

TypeCheckCleans ==
    /\ ~env.quality.typescript.clean
    /\ Improve("improve:typescript",
               [env EXCEPT !.quality.typescript = [errors |-> 0, clean |-> TRUE]])

BuildSucceeds ==
    /\ ~env.quality.build.success
    /\ Improve("improve:build", [env EXCEPT !.quality.build.success = TRUE])

LintDecreases(n) ==
    /\ n < env.quality.lint.errors
    /\ Improve("improve:lint", [env EXCEPT !.quality.lint.errors = n])

DevComesUp ==
    /\ ~((\E r \in Roles : env.procs[r] # 0) /\ (\E e \in Endpoints : env.net[e] = "healthy"))
    /\ Improve("improve:dev", [env EXCEPT !.procs["vite"] = 1, !.net["vite"] = "healthy"])

NextReadiness ==
    \/ Assess
    \/ TypeCheckCleans
    \/ BuildSucceeds
    \/ \E n \in 0..MaxLint : LintDecreases(n)
    \/ DevComesUp

SpecReadiness == InitReadiness /\ [][NextReadiness]_vars

----------------------------------------------------------------------------
(* scan() followed probe by probe: the fan-out to the seven probes, each     *)
(* settling on its own with a result or with the value its catch returns,   *)
(* and the assembly once Promise.all has every result.                      *)

MonorepoTimeout == 30000
BuildTimeout == 60000

\* the dev server up, type and lint errors, a turbo monorepo, uncommitted changes
EnvBusy ==
    [procs |-> [r \in Roles |-> IF r = "vite" THEN 1 ELSE 0],
     net |-> [e \in Endpoints |-> IF e = "vite" THEN "healthy" ELSE "offline"],
     quality |-> [typescript |-> [errors |-> 2, clean |-> FALSE],
                  lint |-> [errors |-> 3, fixable |-> TRUE],
                  build |-> [success |-> TRUE]],
     mono |-> [turbo |-> TRUE, workspaces |-> TRUE],
     git |-> [branch |-> "main", changedFiles |-> 2]]

\* the dev server up, code clean, npm workspaces without turbo, one changed file
EnvWorkspaces ==
    [EnvDev EXCEPT !.mono.workspaces = TRUE, !.git.changedFiles = 1]

ScanEnvs == {EnvBusy, EnvWorkspaces}

InitScan ==
    /\ now = 0
    /\ cache = <<>>
    /\ written = [k \in AllKeys |-> NoWrite]
    /\ ops = 0
    /\ act = Act("init")
    /\ out = <<>>
    /\ monitoring = FALSE
    /\ logWatchers = [l \in LogNames |-> 0]
    /\ tails = <<>>
    /\ timers = <<>>
    /\ processMonitor = 0
    /\ lastKnownState = NULL
    /\ env \in ScanEnvs
    /\ starts = <<>>
    /\ ticks = <<>>
    /\ userProbes = 0
    /\ nextId = 1
    /\ calls = 0
    /\ probing = NoScan

ScanFrame ==
    UNCHANGED <<written, ops, out, monitoring, logWatchers, tails, timers, processMonitor,
                lastKnownState, env, starts, ticks, userProbes, calls>>

\* the cache key of the probes that cache their result, "" for the others
ProbeKey(p) ==
    CASE p = "monorepo" -> "monorepo_structure"
      [] p = "build" -> "build_check"
      [] OTHER -> ""

ProbeTimeout(p) == IF p = "monorepo" THEN MonorepoTimeout ELSE BuildTimeout

\* scan() is called: a fresh 'env_scan' entry is returned at once; otherwise
\* the probes are called in order, and detectMonorepoStructure and checkBuild
\* look up their own cache entries before anything is awaited
ScanCall ==
    /\ ~probing.active
    /\ nextId <= MaxScans
    /\ LET hit == scanCached(cache, now)
           c1 == getCacheMap(cache, "env_scan", now)
           mono == getCacheValue(c1, ProbeKey("monorepo"), now)
           c2 == getCacheMap(c1, ProbeKey("monorepo"), now)
           build == getCacheValue(c2, ProbeKey("build"), now)
           c3 == getCacheMap(c2, ProbeKey("build"), now)
           cached == [p \in Probes |-> IF p = "monorepo" THEN mono
                                       ELSE IF p = "build" THEN build ELSE NULL]
       IN  IF hit # NULL
           THEN /\ act' = [Act("scan") EXCEPT !.scan = "hit", !.val = hit]
                /\ cache' = c1
                /\ UNCHANGED probing
           ELSE /\ act' = [Act("scan") EXCEPT !.scan = "miss"]
                /\ cache' = c3
                /\ probing' = [active |-> TRUE,
                               pending |-> {p \in Probes : cached[p] = NULL},
                               how |-> [p \in Probes |-> IF cached[p] = NULL THEN "" ELSE "cached"],
                               got |-> cached]
    /\ UNCHANGED <<now, nextId>>
    /\ ScanFrame

\* probe p settles: with its result, which detectMonorepoStructure and
\* checkBuild also cache, or with the value its catch returns
ProbeSettles(p, how) ==
    /\ probing.active
    /\ p \in probing.pending
    /\ how \in {"ok"} \cup FailModes(p)
    /\ probing' = [probing EXCEPT !.pending = @ \ {p}, !.how[p] = how,
                                  !.got[p] = ProbeResult(env, p, how)]
    /\ cache' = IF how = "ok" /\ ProbeKey(p) # ""
                THEN setCache(cache, ProbeKey(p), ProbeResult(env, p, how), ProbeTimeout(p), now)
                ELSE cache
    /\ act' = [Act("probe") EXCEPT !.key = p, !.res = ProbeResult(env, p, how)]
    /\ UNCHANGED <<now, nextId>>
    /\ ScanFrame

AllSettledButGit == probing.pending \subseteq {"git"}

\* Promise.all resolves when each of its promises has resolved
AllSettled == probing.pending = {}

\* scan() resumes after `await Promise.all`, assembles the result, caches it
\* under 'env_scan' and returns it
ScanAssemble ==
    /\ probing.active
    /\ AllSettled
    /\ cache' = scanStore(cache, Assemble(probing.got, now, nextId), now)
    /\ act' = [Act("scan:return") EXCEPT !.val = Assemble(probing.got, now, nextId),
                                         !.stored = TRUE]
    /\ nextId' = nextId + 1
    /\ probing' = NoScan
    /\ UNCHANGED now
    /\ ScanFrame

\* time passes, also while probes are running; the continuation of a resolved
\* Promise.all runs before any more time passes
ScanClock ==
    /\ ~(probing.active /\ probing.pending = {})
    /\ now + ScanStep <= ScanMaxTime
    /\ now' = now + ScanStep
    /\ act' = Act("clock")
    /\ UNCHANGED <<cache, nextId, probing>>
    /\ ScanFrame

NextScan ==
    \/ ScanCall
    \/ \E p \in Probes, how \in {"ok", "failed", "package.json", "frameworks"} : ProbeSettles(p, how)
    \/ ScanAssemble
    \/ ScanClock

SpecScan == InitScan /\ [][NextScan]_vars

----------------------------------------------------------------------------
(* Process detection. A command is the text of the words of a `ps` line     *)
(* from the eleventh column on, joined by single spaces; scanProcesses      *)
(* classifies it into a role and records a port for it.                     *)

CmdWords == {"npm", "yarn", "dev", "vite", "next", "astro", "convex", "turbo", "--port", "8080", "PORT=4000", "node"}

\* the characters of a command word, a pattern or a port string
Chars(w) ==
    CASE w = "npm" -> <<"n", "p", "m">>
      [] w = "yarn" -> <<"y", "a", "r", "n">>
      [] w = "dev" -> <<"d", "e", "v">>
      [] w = "vite" -> <<"v", "i", "t", "e">>
      [] w = "next" -> <<"n", "e", "x", "t">>
      [] w = "astro" -> <<"a", "s", "t", "r", "o">>
      [] w = "convex" -> <<"c", "o", "n", "v", "e", "x">>
      [] w = "turbo" -> <<"t", "u", "r", "b", "o">>
      [] w = "--port" -> <<"-", "-", "p", "o", "r", "t">>
      [] w = "8080" -> <<"8", "0", "8", "0">>
      [] w = "PORT=4000" -> <<"P", "O", "R", "T", "=", "4", "0", "0", "0">>
      [] w = "node" -> <<"n", "o", "d", "e">>
      [] w = "4321" -> <<"4", "3", "2", "1">>
      [] w = "5173" -> <<"5", "1", "7", "3">>
      [] w = "3000" -> <<"3", "0", "0", "0">>
      [] w = "3210" -> <<"3", "2", "1", "0">>
      [] w = "unknown" -> <<"u", "n", "k", "n", "o", "w", "n">>
      [] w = "webpack" -> <<"w", "e", "b", "p", "a", "c", "k">>
      [] w = "pnpm" -> <<"p", "n", "p", "m">>
      [] w = "react" -> <<"r", "e", "a", "c", "t">>
      [] w = "nuxt" -> <<"n", "u", "x", "t">>
      [] w = "svelte" -> <<"s", "v", "e", "l", "t", "e">>
      [] w = "vue" -> <<"v", "u", "e">>
      [] w = "port" -> <<"p", "o", "r", "t">>
      [] w = "PORT" -> <<"P", "O", "R", "T">>
      [] w = "convex dev" -> <<"c", "o", "n", "v", "e", "x", " ", "d", "e", "v">>

RECURSIVE CmdText(_)
\* parts.slice(10).join(' ')
CmdText(ws) ==
    IF ws = <<>> THEN <<>>
    ELSE IF Len(ws) = 1 THEN Chars(ws[1])
    ELSE Chars(ws[1]) \o <<" ">> \o CmdText(Tail(ws))

\* command.includes(w)
Includes(t, w) == \E i \in 1..Len(t) : StartsAt(t, i, Chars(w))

\* grep -E "a.*b" on the line
GrepThen(t, a, b) ==
    \E i \in 1..Len(t), j \in 1..Len(t) :
        StartsAt(t, i, Chars(a)) /\ StartsAt(t, j, Chars(b)) /\ j >= i + Len(Chars(a))

\* the lines the `ps aux | grep -E "(...)"` pipeline lets through
PsGrep(t) ==
    \/ \E a \in {"npm", "yarn", "pnpm", "turbo"} : GrepThen(t, a, "dev")
    \/ \E w \in {"vite", "astro", "next", "convex", "webpack"} : Includes(t, w)

\* the end of the longest run of characters of `class` that starts at k, k - 1 when none
RunEnd(t, k, class) ==
    IF k > Len(t) \/ t[k] \notin class THEN k - 1
    ELSE CHOOSE e \in k..Len(t) :
            /\ \A y \in k..e : t[y] \in class
            /\ e = Len(t) \/ t[e + 1] \notin class

Digits == {"0", "1", "2", "3", "4", "5", "6", "7", "8", "9"}
Separators == {" ", "\n", "=", ":"}

\* the digits captured by /(?:--port|port|PORT)[\s=:]+(\d+)/ when the keyword
\* starts at i, <<>> when the expression does not match there
PortAt(t, i) ==
    LET alts == {a \in {"--port", "port", "PORT"} : StartsAt(t, i, Chars(a))}
        Try(a) == LET k == i + Len(Chars(a))
                      s == RunEnd(t, k, Separators)
                      d == RunEnd(t, s + 1, Digits)
                  IN  IF s >= k /\ d >= s + 1 THEN SubSeq(t, s + 1, d) ELSE <<>>
        ok == {a \in alts : Try(a) # <<>>}
    IN  IF ok = {} THEN <<>>
        ELSE IF "--port" \in ok THEN Try("--port")
        ELSE Try(CHOOSE a \in ok : TRUE)

\* command.match(...)[1]: the capture of the leftmost match, <<>> when none
PortMatch(t) ==
    LET at == {i \in 1..Len(t) : PortAt(t, i) # <<>>}
    IN  IF at = {} THEN <<>>
        ELSE PortAt(t, CHOOSE x \in at : \A y \in at : x <= y)

\* extractPort(command)
extractPort(t) ==
    IF PortMatch(t) # <<>> THEN PortMatch(t)
    ELSE IF Includes(t, "astro") THEN Chars("4321")
    ELSE IF Includes(t, "vite") THEN Chars("5173")
    ELSE IF Includes(t, "next") THEN Chars("3000")
    ELSE IF Includes(t, "react") /\ ~Includes(t, "next") THEN Chars("3000")
    ELSE IF Includes(t, "convex") THEN Chars("3210")
    ELSE IF Includes(t, "nuxt") THEN Chars("3000")
    ELSE IF Includes(t, "svelte") THEN Chars("5173")
    ELSE IF Includes(t, "vue") THEN Chars("8080")
    ELSE Chars("unknown")

\* a || b on strings: b when a is the empty string
OrElse(a, b) == IF a = <<>> THEN b ELSE a

NoPort == <<>>

\* the entry scanProcesses records for one line: its role ("" when the line
\* matches no branch), its port (NoPort when the entry has no port field)
\* and its type
scanProcessLine(t) ==
    IF Includes(t, "turbo") /\ Includes(t, "dev")
    THEN [role |-> "turbo", port |-> NoPort, type |-> "monorepo-dev"]
    ELSE IF Includes(t, "astro") /\ Includes(t, "dev")
    THEN [role |-> "astro", port |-> OrElse(extractPort(t), Chars("4321")), type |-> "astro-dev"]
    ELSE IF Includes(t, "vite")
            \/ (Includes(t, "npm") /\ Includes(t, "dev") /\ ~Includes(t, "next"))
    THEN [role |-> "vite", port |-> OrElse(extractPort(t), Chars("5173")), type |-> "vite-dev"]
    ELSE IF Includes(t, "next")
            \/ (Includes(t, "npm") /\ Includes(t, "dev") /\ Includes(t, "next"))
    THEN [role |-> "next", port |-> Chars("3000"), type |-> "next-dev"]
    ELSE IF Includes(t, "convex")
    THEN [role |-> "convex", port |-> Chars("3210"),
          type |-> IF Includes(t, "convex dev") THEN "local" ELSE "cloud"]
    ELSE IF Includes(t, "dev")
            /\ (Includes(t, "npm") \/ Includes(t, "yarn") \/ Includes(t, "pnpm"))
    THEN [role |-> "dev", port |-> OrElse(extractPort(t), Chars("unknown")), type |-> "generic-dev"]
    ELSE [role |-> "", port |-> NoPort, type |-> ""]

\* the commands of the process lines given to scanProcesses
Commands == {ws \in UNION {[1..n -> CmdWords] : n \in 1..MaxCmdWords} : PsGrep(CmdText(ws))}

InitPort ==
    /\ now = 0
    /\ cache = <<>>
    /\ written = [k \in AllKeys |-> NoWrite]
    /\ ops = 0
    /\ \E ws \in Commands : act = [Act("input") EXCEPT !.lines = ws]
    /\ out = <<>>
    /\ IdleEngine

\* extractPort is called on the command
ExtractPortCall ==
    /\ act' = [Act("extractPort") EXCEPT !.lines = act.lines,
                                         !.res = [port |-> extractPort(CmdText(act.lines))]]
    /\ UNCHANGED <<now, cache, written, ops, out, monitorVars>>

\* scanProcesses reads the line of the command
ScanLine ==
    /\ act' = [Act("scanProcesses") EXCEPT !.lines = act.lines,
                                           !.res = scanProcessLine(CmdText(act.lines))]
    /\ UNCHANGED <<now, cache, written, ops, out, monitorVars>>

NextPort ==
    \/ ExtractPortCall
    \/ ScanLine

SpecPort == InitPort /\ [][NextPort]_vars

----------------------------------------------------------------------------
(* Cache properties, checked under SpecCache *)

\* C6: for ttl > 0, getCache(key) directly after setCache(key, value, ttl)
\* returns value; getCache(key) at a time >= ttl after the last write of the
\* key returns null and leaves no entry for the key.
C6_GetAfterSet ==
    [][ /\ ( /\ act.op = "setCache" /\ written[act.key].ttl > 0
             /\ act'.op = "getCache" /\ act'.key = act.key )
           => act'.val = act.val
        /\ ( /\ act'.op = "getCache" /\ written[act'.key].set
             /\ written[act'.key].ttl > 0
             /\ now >= written[act'.key].at + written[act'.key].ttl )
           => (act'.val = NULL /\ act'.key \notin CacheKeys(cache'))
      ]_vars

\* a read found the entry of a key written with ttl > 0 at least ttl ago
C6_Witness ==
    /\ act.op = "getCache" /\ written[act.key].set /\ written[act.key].ttl > 0
    /\ written[act.key].at > 0
    /\ now >= written[act.key].at + written[act.key].ttl
    /\ act.val = NULL

\* C7: the cache never holds more than CacheMaxSize distinct keys, and a
\* setCache of a new key into a full cache removes exactly one entry.
C7_Bounded ==
    /\ [](Len(cache) <= CacheMaxSize /\ Cardinality(CacheKeys(cache)) = Len(cache))
    /\ [][ ( /\ act'.op = "setCache" /\ ops' # ops
             /\ Len(cache) = CacheMaxSize /\ act'.key \notin CacheKeys(cache) )
           => ( /\ Cardinality(CacheKeys(cache) \ CacheKeys(cache')) = 1
                /\ Len(cache') = CacheMaxSize )
      ]_vars

\* a write to a full cache evicted an entry
C7_Witness ==
    /\ act.op = "setCache" /\ act.evicted # "" /\ Len(cache) = CacheMaxSize

\* C8 (as claimed): the entry evicted on overflow is the one whose write is
\* the oldest among the stored entries, and never the key just written.
C8_EvictsOldestWrite ==
    [][ (act'.op = "setCache" /\ ops' # ops /\ act'.evicted # "")
           => ( /\ act'.evicted # act'.key
                /\ \A i \in 1..Len(cache) :
                      cache[MapIndex(cache, act'.evicted)].timestamp <= cache[i].timestamp )
      ]_vars

----------------------------------------------------------------------------
(* Monitor properties, checked under Spec *)

\* Active: the monitoring flag is set and no startMonitoring call is in progress
Active == monitoring /\ starts = <<>>

Count(s, e) == Cardinality({i \in 1..Len(s) : s[i] = e})

\* C1: startMonitoring called while the monitoring flag is set (an earlier
\* call being in progress or complete) fails with 'Monitoring already active'
\* and changes neither the flag, the timer, the baseline nor the watchers.
C1_SecondStartRejected ==
    [][ (act'.op = "startMonitoring" /\ monitoring)
           => ( /\ act'.err = "Monitoring already active"
                /\ UNCHANGED <<monitoring, timers, processMonitor, lastKnownState,
                               logWatchers, tails, starts>> )
      ]_vars

\* a call was rejected while the call that began the session was in progress
C1_Witness ==
    /\ act.op = "startMonitoring" /\ act.err = "Monitoring already active"
    /\ \E k \in 1..Len(starts) : starts[k].cur /\ starts[k].pc = "probe"
    /\ \E i \in 1..Len(tails) : tails[i].cur /\ tails[i].st = "running"

\* C2 (as claimed): stopMonitoring while Active disarms the session's timer,
\* leaves none of the session's tail processes running and no watcher in the
\* table, emits exactly 'monitoring:stopped' and clears the monitoring flag.
C2_StopReleasesSession ==
    [][ (act'.op = "stopMonitoring" /\ Active)
           => ( /\ ~monitoring'
                /\ processMonitor' = 0
                /\ \A j \in 1..Len(timers') : ~timers'[j].cur
                /\ \A l \in LogNames : logWatchers'[l] = 0
                /\ \A i \in 1..Len(tails') : tails'[i].cur => tails'[i].st # "running"
                /\ out' = <<Stopped>> )
      ]_vars

\* C3 (as claimed): a tick that completes without failure has taken its
\* snapshot after its timer fired, publishes the events of the diff of that
\* snapshot against the baseline, and makes that snapshot the baseline.
C3_TickTakesNewSnapshot ==
    [][ (act'.op = "tick" /\ act'.err = "" /\ act'.base # NULL)
           => ( /\ act'.val.timestamp >= act'.firedAt
                /\ out' = TickEmits(detectStateChanges(act'.base, act'.val).changes,
                                    act'.base, act'.val)
                /\ lastKnownState' = act'.val )
      ]_vars

\* C4: a tick that fails emits exactly one 'monitoring:error' and leaves the
\* timers armed and the monitoring flag as they were.
C4_TickFailureCaught ==
    [][ (act'.op = "tick" /\ act'.err # "")
           => ( /\ Count(out', MonitoringError) = 1
                /\ out'[Len(out')] = MonitoringError
                /\ monitoring' = monitoring
                /\ processMonitor' = processMonitor
                /\ Len(timers') = Len(timers)
                /\ \A j \in 1..Len(timers') : timers'[j].next >= timers[j].next )
      ]_vars

\* a tick failed while monitoring, its timer still armed for the next tick
C4_Witness ==
    /\ act.op = "tick" /\ act.err # ""
    /\ monitoring /\ processMonitor # 0
    /\ timers[processMonitor].next > now
    /\ Count(out, MonitoringError) = 1

\* C5 (as claimed): when the latest startMonitoring call returns with an
\* error, the monitoring flag is clear, no timer of the call is armed and no
\* tail process of the call is running or in the watcher table.
C5_FailedStartLeavesIdle ==
    [][ (act'.op = "startMonitoring:return" /\ act'.err # "" /\ act'.cur)
           => ( /\ ~monitoring'
                /\ \A j \in 1..Len(timers') : ~timers'[j].cur
                /\ \A i \in 1..Len(tails') :
                      tails'[i].cur => ( /\ tails'[i].st # "running"
                                         /\ \A l \in LogNames : logWatchers'[l] # i ) )
      ]_vars

\* a step in which scan() is entered
ScanEntered(a) ==
    \/ a.op \in {"scan", "startMonitoring:scan", "tick:scan"}
    \/ a.op = "tick" /\ a.scan = "hit"

\* C9: a scan() entered while the cache holds a snapshot under 'env_scan'
\* younger than cacheTimeout returns that very snapshot and starts no probe
\* run; a scan() entered otherwise starts one; and a scan() that probed has
\* stored the snapshot it returns under 'env_scan' when it returns.
C9_ScanCacheFirst ==
    [][ /\ ScanEntered(act') =>
              IF \E i \in 1..Len(cache) : /\ cache[i].key = "env_scan"
                                          /\ now - cache[i].timestamp < cacheTimeout
              THEN /\ act'.scan = "hit"
                   /\ act'.val = cache[MapIndex(cache, "env_scan")].data
                   /\ InFlight' = InFlight
                   /\ nextId' = nextId
              ELSE /\ act'.scan = "miss"
                   /\ InFlight' = InFlight + 1
        /\ act'.stored =>
              ( /\ "env_scan" \in CacheKeys(cache')
                /\ cache'[MapIndex(cache', "env_scan")].data = act'.val
                /\ cache'[MapIndex(cache', "env_scan")].timestamp = now )
      ]_vars

\* a client's scan() was served the stored snapshot some time after it was taken
C9_Witness ==
    /\ act.op = "scan" /\ act.scan = "hit"
    /\ act.val # NULL /\ act.val.timestamp < now
    /\ userProbes = 0

\* C10: a tick that finds no baseline emits no event, raises no error and
\* makes its snapshot the baseline.
C10_FirstRunNoEvents ==
    [][ (act'.op = "tick" /\ act'.base = NULL)
           => ( /\ out' = <<>>
                /\ act'.err = ""
                /\ lastKnownState' = act'.val /\ act'.val # NULL )
      ]_vars

\* a tick ran before any baseline was stored
C10_Witness ==
    /\ act.op = "tick" /\ act.base = NULL
    /\ lastKnownState = act.val /\ lastKnownState # NULL

----------------------------------------------------------------------------
(* Differ properties, checked under SpecDiff *)

Diffed == act.op = "detectStateChanges"

OfType(s, types) == SelectSeq(s, LAMBDA e : e.type \in types)

C12_NetworkEvents ==
    Diffed =>
        LET b == act.base
            a == act.val
            both == {e \in Endpoints : b.network[e] # "absent" /\ a.network[e] # "absent"}
            down == {e \in both : b.network[e] = "healthy" /\ a.network[e] = "offline"}
            up   == {e \in both : b.network[e] = "offline" /\ a.network[e] = "healthy"}
        IN  /\ act.err = ""
            /\ \A e \in down : Count(out, [type |-> "network:down", endpoint |-> e,
                                           port |-> EndpointPort(e)]) = 1
            /\ \A e \in up : Count(out, [type |-> "network:up", endpoint |-> e,
                                         port |-> EndpointPort(e)]) = 1
            /\ Len(OfType(out, {"network:down", "network:up"}))
                  = Cardinality(down) + Cardinality(up)

Rank(e) ==
    CASE e.type = "process:crashed" -> 1
      [] e.type = "process:started" -> 2
      [] e.type \in {"network:down", "network:up"} -> 3
      [] OTHER -> 4

\* the place of an endpoint in checkNetwork's endpoint table
EndpointIndex(n) == CHOOSE i \in 1..Len(EndpointOrder) : EndpointOrder[i] = n

\* crashed, then started, then network events by endpoint, then readiness
InPassOrder(s) ==
    \A i \in 1..Len(s), j \in 1..Len(s) :
        i < j => /\ Rank(s[i]) <= Rank(s[j])
                 /\ (Rank(s[i]) = 3 /\ Rank(s[j]) = 3)
                       => EndpointIndex(s[i].endpoint) < EndpointIndex(s[j].endpoint)

\* C24: the changes detectStateChanges returns are in the order crashed,
\* started, network by endpoint, readiness; and the tick emits 'state:changed'
\* with that list and then the process and network events of the list, each
\* once, in the order of the list.
C24_PassOrder ==
    /\ Diffed => InPassOrder(out)
    /\ (act.op = "tick:emit" /\ out # <<>>) =>
          LET ch == out[1].changes
              single == Tail(out)
          IN  /\ out[1].type = "state:changed"
              /\ InPassOrder(ch) /\ InPassOrder(single)
              /\ \A i \in 1..Len(ch) : Rank(ch[i]) < 4 => Count(single, ch[i]) = 1
              /\ \A i \in 1..Len(single) : Count(ch, single[i]) = 1 /\ Rank(single[i]) < 4

\* a pass with a crashed process, a started one, both endpoints changed and
\* the readiness level changed, emitted by the tick
C24_Witness ==
    /\ act.op = "tick:emit"
    /\ Len(out) = 5
    /\ Len(out[1].changes) = 5
    /\ out[2].type = "process:crashed" /\ out[3].type = "process:started"
    /\ out[4].endpoint = "vite" /\ out[5].endpoint = "convex"
    /\ out[1].changes[5].type = "readiness:changed"

----------------------------------------------------------------------------
(* Log properties, checked under SpecLog *)

\* what a word holds, read off its spelling
Kind(w) ==
    CASE w \in {"ERROR", "failed"} -> "error"
      [] w = "Warning"             -> "warning"
      [] w = "ready"               -> "success"
      [] w = "http://a"            -> "url"
      [] w = "ok"                  -> "plain"
      [] OTHER                     -> "space"

Holds(ws, k) == \E i \in 1..Len(ws) : Kind(ws[i]) = k

\* the category of a line by precedence: error, warning, success, url, info
LineKind(ws) ==
    IF Holds(ws, "error") THEN "error"
    ELSE IF Holds(ws, "warning") THEN "warning"
    ELSE IF Holds(ws, "success") THEN "success"
    ELSE IF Holds(ws, "url") THEN "url"
    ELSE "info"

Blank(ws) == \A i \in 1..Len(ws) : Kind(ws[i]) = "space"

\* C14: parseLogLine returns a category for every line, and the category is
\* error when the line holds an error keyword in any letter case, else
\* warning when it holds a warning keyword, else success when it holds a
\* success keyword, else url when it holds a URL, else info.
C14_ClassifyPrecedence ==
    act.op = "parseLogLine" =>
        /\ act.res.type \in {"error", "warning", "success", "url", "info"}
        /\ act.res.type = LineKind(act.lines[1])

\* a line holding a URL and an upper-case error keyword was classified error
C14_Witness ==
    /\ act.op = "parseLogLine"
    /\ act.lines = << <<"http://a", "ERROR">> >>
    /\ act.res.type = "error"

\* C15: the handler of a chunk emits, for the non-blank lines of the chunk
\* whose category is not info, in the order of the lines, one event each of
\* the line's category with the watcher's log name and the line, and no
\* other classified event.
C15_ChunkEvents ==
    act.op = "log:data" =>
        LET told == SelectSeq(act.lines, LAMBDA ws : ~Blank(ws) /\ LineKind(ws) # "info")
        IN  /\ Len(out) = Len(told) + 1
            /\ out[Len(out)].type = "log:entry"
            /\ \A i \in 1..Len(told) :
                  /\ out[i].type = "terminal:" \o LineKind(told[i])
                  /\ out[i].source = act.source
                  /\ out[i].line = LineText(told[i])

\* a chunk of a line that is both error and URL and a success line gave one
\* error event and one success event, in that order
C15_Witness ==
    /\ act.op = "log:data"
    /\ act.lines = << <<"ERROR", "http://a">>, <<"ready">> >>
    /\ Len(out) = 3
    /\ out[1].type = "terminal:error" /\ out[2].type = "terminal:success"
    /\ out[1].source = act.source /\ act.source \in LogNames

----------------------------------------------------------------------------
(* Readiness properties, checked under SpecReadiness *)

Assessed == act.op = "calculateReadiness"

HasDev == (\E r \in Roles : env.procs[r] # 0) /\ (\E e \in Endpoints : env.net[e] = "healthy")

C17_IssuesRecorded ==
    Assessed =>
        /\ ~env.quality.typescript.clean =>
              /\ Count(act.res.issues, [about |-> "TypeScript",
                                        count |-> env.quality.typescript.errors]) = 1
              /\ Count(act.res.critical, [about |-> "TypeScript",
                                          count |-> env.quality.typescript.errors]) = 1
        /\ ~env.quality.build.success =>
              /\ Count(act.res.issues, [about |-> "Build", count |-> 0]) = 1
              /\ Count(act.res.critical, [about |-> "Build", count |-> 0]) = 1

\* C18: after type-check becoming clean, the build becoming successful, the
\* lint error count decreasing, or a process and a healthy endpoint being
\* gained, all else equal, the score is not lower than before.
C18_ScoreMonotone ==
    act.op \in {"improve:typescript", "improve:build", "improve:lint", "improve:dev"}
        => act.res.score >= act.base.score

\* the lint error count went down and the score went up
C18_Witness ==
    /\ act.op = "improve:lint"
    /\ act.res.score > act.base.score
    /\ env.quality.lint.errors > 0

----------------------------------------------------------------------------
(* Monitor properties, checked under Spec (continued) *)

\* C20: stopMonitoring called while the monitoring flag is clear raises no
\* error, emits nothing and leaves the flag, the timers, the watcher table,
\* the tail processes, the baseline and the cache as they were.
C20_IdleStopNoOp ==
    [][ (act'.op = "stopMonitoring" /\ ~monitoring)
           => ( /\ act'.err = ""
                /\ out' = <<>>
                /\ UNCHANGED <<monitoring, timers, processMonitor, logWatchers, tails,
                               lastKnownState, cache>> )
      ]_vars

\* stopMonitoring was called after a session had ended and did nothing
C20_Witness ==
    /\ act.op = "stopMonitoring" /\ out = <<>>
    /\ ~monitoring /\ calls > 0 /\ lastKnownState # NULL

----------------------------------------------------------------------------
(* Probe-run properties, checked under SpecScan *)

\* the facet of a snapshot that probe p supplies
Facet(s, p) ==
    CASE p = "monorepo" -> s.monorepo
      [] p = "processes" -> s.processes
      [] p = "network" -> s.network
      [] p = "typescript" -> s.quality.typescript
      [] p = "lint" -> s.quality.lint
      [] p = "build" -> s.quality.build
      [] p = "git" -> s.git

\* C19: whenever scan() returns after a probe run it returns without an error
\* a snapshot assembled when no probe was still pending, in which the facet of
\* each probe that succeeded (or answered from its cache) is what that probe
\* observes, whatever happened to the other probes, and the facet of each
\* probe that failed is the degraded value of that probe alone.
C19_ScanAssemblesAll ==
    [][ (act'.op = "scan:return" /\ act'.stored)
           => ( /\ probing.active
                /\ probing.pending = {}
                /\ act'.err = ""
                /\ act'.val.timestamp = now
                /\ getCacheValue(cache', "env_scan", now) = act'.val
                /\ \A p \in Probes :
                      Facet(act'.val, p) =
                         IF probing.how[p] \in {"ok", "cached"}
                         THEN Observe(env, p)
                         ELSE Degraded(env, p, probing.how[p]) ) ]_vars

\* a scan returned a snapshot whose type-check and structure facets are
\* degraded while its other facets are the observed ones
C19_Witness ==
    /\ act.op = "scan:return" /\ act.stored
    /\ act.val.quality.typescript.errors = -1
    /\ act.val.monorepo.frameworks = "{}"
    /\ \A p \in Probes \ {"typescript", "monorepo"} : Facet(act.val, p) = Observe(env, p)
    /\ act.val.git.changedFiles > 0
    /\ \E e \in Endpoints : act.val.network[e] = "healthy"

----------------------------------------------------------------------------
(* Process-detection properties, checked under SpecPort *)

\* the ports a command names in an argument: `--port N` or `PORT=N`
ExplicitPorts(ws) ==
    {Chars(ws[i + 1]) : i \in {j \in 1..(Len(ws) - 1) : ws[j] = "--port" /\ ws[j + 1] = "8080"}}
    \cup {<<"4", "0", "0", "0">> : i \in {j \in 1..Len(ws) : ws[j] = "PORT=4000"}}

\* the table of default ports by role; NoPort for a role without one
RoleDefault(role) ==
    CASE role = "astro" -> Chars("4321")
      [] role = "vite" -> Chars("5173")
      [] role = "next" -> Chars("3000")
      [] role = "convex" -> Chars("3210")
      [] OTHER -> NoPort

\* C21 (as claimed): the port recorded for a detected process is the port its
\* command names in an argument when it names one, otherwise the default
\* port of its role, and 'unknown' only when the role has no default port.
C21_PortRecorded ==
    (act.op = "scanProcesses" /\ act.res.role \notin {"", "turbo"})
       => IF ExplicitPorts(act.lines) # {}
          THEN act.res.port \in ExplicitPorts(act.lines)
          ELSE IF RoleDefault(act.res.role) # NoPort
          THEN act.res.port = RoleDefault(act.res.role)
          ELSE act.res.port = Chars("unknown")

----------------------------------------------------------------------------
(* Loop properties, checked under SpecLoop *)

\* a step in which a timer callback starts and calls scan()
TickBegins(a) == a.op = "tick:scan" \/ (a.op = "tick" /\ a.scan = "hit")

\* C22 (as claimed): when a tick begins to compute its snapshot, no earlier
\* tick is still waiting for its own snapshot with its events unpublished.
C22_TicksInOrder ==
    [][ TickBegins(act') => ticks = <<>> ]_vars

----------------------------------------------------------------------------
(* Monitor properties, checked under Spec (stop and restart) *)

\* C23 (as claimed): a tick in which the handler of one of its events calls
\* stopMonitoring completes without error, and after it the monitoring flag
\* is clear, no timer of the session is armed, the watcher table is empty
\* and no tail process of the session is running.
C23_ReentrantStop ==
    [][ (act'.op = "tick" /\ act'.reentrant)
           => ( /\ act'.err = ""
                /\ ~monitoring'
                /\ processMonitor' = 0
                /\ \A j \in 1..Len(timers') : ~timers'[j].cur
                /\ \A l \in LogNames : logWatchers'[l] = 0
                /\ \A i \in 1..Len(tails') : tails'[i].cur => tails'[i].st # "running" )
      ]_vars

TransitionTypes ==
    {"state:changed", "process:crashed", "process:started", "network:down", "network:up"}

\* no transition event and no 'monitoring:error' among the events s
Quiet(s) == \A i \in 1..Len(s) : s[i].type \notin TransitionTypes \cup {"monitoring:error"}

\* the events of s that come after 'monitoring:stopped', all of s when it has none
AfterStopped(s) ==
    IF \E i \in 1..Len(s) : s[i] = Stopped
    THEN SubSeq(s, (CHOOSE i \in 1..Len(s) : s[i] = Stopped) + 1, Len(s))
    ELSE s

\* C25 (as claimed): in the first session, from the publication of
\* 'monitoring:stopped' until startMonitoring is called again, no transition
\* event and no 'monitoring:error' is published and the baseline stays as it is.
\* (With one startMonitoring call accepted and returned, the flag is clear
\* only after a stop or after a start that failed before arming the timer.)
C25_SilentAfterStop ==
    [][ /\ (calls = 1 /\ starts = <<>> /\ ~monitoring /\ act'.op # "startMonitoring")
           => (Quiet(out') /\ lastKnownState' = lastKnownState)
        /\ (calls = 1 /\ starts = <<>> /\ monitoring /\ ~monitoring')
           => Quiet(AfterStopped(out'))
      ]_vars

\* C26 (as claimed): whenever the monitoring flag is clear and no
\* startMonitoring call is in progress, no interval timer is armed,
\* processMonitor is null and the log-watcher table is empty.
C26_IdleHoldsNothing ==
    (~monitoring /\ starts = <<>>)
       => ( /\ timers = <<>>
            /\ processMonitor = 0
            /\ \A l \in LogNames : logWatchers[l] = 0 )

\* C27 (as claimed): every tail process that is running is the handle the
\* log-watcher table holds under its log name.
C27_RunningIsRegistered ==
    \A i \in 1..Len(tails) : tails[i].st = "running" => logWatchers[tails[i].log] = i

----------------------------------------------------------------------------
(* Loop properties, checked under SpecLoop (the baseline) *)

\* C28: whenever the baseline is replaced the new snapshot is not older than
\* the one it replaces, and every diff of a tick compares a baseline with a
\* snapshot that is not older than it.
C28_BaselineForward ==
    [][ /\ (lastKnownState # NULL /\ lastKnownState' # lastKnownState)
           => lastKnownState'.timestamp >= lastKnownState.timestamp
        /\ (act'.op = "tick" /\ act'.base # NULL)
           => act'.base.timestamp <= act'.val.timestamp
      ]_vars

\* a tick that waited for its probes has replaced a baseline that was taken
\* after the tick itself had fired, by another snapshot object
C28_Witness ==
    /\ act.op = "tick" /\ act.stored
    /\ act.base # NULL /\ act.base.id # act.val.id
    /\ act.firedAt < act.base.timestamp
    /\ act.base.timestamp <= act.val.timestamp
    /\ lastKnownState = act.val

----------------------------------------------------------------------------
(* The baseline of a second session                                          *)

\* C29: in a session started after an earlier one was stopped, no tick
\* compares its snapshot with the baseline the earlier session left behind
C29_FreshBaseline ==
    [][ act'.op = "tick" => act'.base # Leftover ]_vars

----------------------------------------------------------------------------
(* Concurrent scans                                                          *)

\* C30: at most one run of the probe set is in flight at any time, whoever
\* called scan(): a tick, startMonitoring, or the client
C30_OneProbeRun == InFlight <= 1

====
